---- MODULE Spec2Model ----
(***************************************************************************)
(* Model of the bridge program of api-backend/server/solana-bridge.rs:     *)
(* the four instruction handlers lock, release, mint_wrapped and           *)
(* burn_wrapped, the BridgeState account they mutate, the token accounts   *)
(* and mints they drive through the token program, and the event log.      *)
(***************************************************************************)
EXTENDS Integers, Sequences, FiniteSets, TLC

VARIABLES
    nonce,       \* BridgeState.nonce, a u64 kept as four 16-bit limbs
    processed,   \* BridgeState.processed, a Vec<[u8; 32]>
    bal,         \* token account -> amount held
    supply,      \* mint -> tokens in circulation
    events,      \* the emit! log, in emission order
    last,        \* the last invocation: its arguments and its result
    calls,       \* invocations made so far
    nonce0,      \* nonce at initialization
    nOut,        \* successful lock/burn_wrapped invocations so far
    sumLock,     \* total amount of the successful lock invocations
    sumRelease,  \* total amount of the successful release invocations
    succ,        \* source_tx -> successful release/mint_wrapped invocations
    failed,      \* source_tx of releases whose vault transfer failed
    vault0,      \* what the account at ["vault"] held at initialization
    before,      \* nonce and supply as the last invocation found them
    pending,     \* process -> the transaction it has in flight (SpecConc)
    version,     \* commits made to the accounts (SpecConc)
    raced        \* unprocessed source_tx two processes had in flight at once

core == <<nonce, processed, bal, supply, events>>
ghost == <<last, calls, nonce0, nOut, sumLock, sumRelease, succ, failed,
          vault0, before>>
host == <<pending, version, raced>>
vars == <<core, ghost, host>>

----------------------------------------------------------------------------
(* Bounds of the model. *)

MaxAmount == 2
MaxCalls == 2
UserFunds == 2
VaultFunds == 1
MaxSubmits == 3

(* target_addr.len() <= 64 *)
MaxTargetAddr == 64

(* One limb of a u64: nonce is held as <<l1, l2, l3, l4>>, l1 the most     *)
(* significant, each limb in 0 .. LimbBase - 1, so that 2^64 - 1 is        *)
(* representable.                                                          *)
LimbBase == 65536

Amounts == 0 .. MaxAmount
Chains == {"chainB", "chainC"}
(* The target_chain arguments of the outbound instructions. *)
TargetChains == {"chainB"}
SourceTxs == {"T1", "T2"}
Users == {"alice"}
Slots == {7}
Procs == {"p1", "p2"}

Bytes(n) == [i \in 1 .. n |-> 0]
TargetAddrs == {Bytes(MaxTargetAddr), Bytes(MaxTargetAddr + 1)}

----------------------------------------------------------------------------
(* u64 arithmetic on limbs. *)

U64Zero == <<0, 0, 0, 0>>
U64Max == <<LimbBase - 1, LimbBase - 1, LimbBase - 1, LimbBase - 1>>

(* n + 1 modulo 2^64. *)
U64WrappingInc(n) ==
    IF n[4] < LimbBase - 1 THEN <<n[1], n[2], n[3], n[4] + 1>>
    ELSE IF n[3] < LimbBase - 1 THEN <<n[1], n[2], n[3] + 1, 0>>
    ELSE IF n[2] < LimbBase - 1 THEN <<n[1], n[2] + 1, 0, 0>>
    ELSE IF n[1] < LimbBase - 1 THEN <<n[1] + 1, 0, 0, 0>>
    ELSE U64Zero

(* a <= b on u64. *)
U64Leq(a, b) ==
    \/ a = b
    \/ \E i \in 1 .. 4 : /\ a[i] < b[i]
                         /\ \A j \in 1 .. (i - 1) : a[j] = b[j]

----------------------------------------------------------------------------
(* Addresses. An address is the tuple of the seeds (or of the key) it is   *)
(* derived from; the derivation is injective.                              *)

Pda(seeds) == seeds

NativeMint == <<"mintA">>
WrappedMintOf(chain) == Pda(<<"wrapped_mint", chain>>)
Mints == {NativeMint} \cup {WrappedMintOf(c) : c \in Chains}

(* Lock.vault: seeds = [b"vault", token_mint.key().as_ref()] *)
LockVault(mint) == Pda(<<"vault">> \o mint)
(* Release.vault: seeds = [b"vault"] *)
ReleaseVault == Pda(<<"vault">>)
(* the signer release derives: seeds = &[b"vault", &[ctx.bumps.vault]] *)
ReleaseSigner == Pda(<<"vault">>)
(* the signer mint_wrapped derives from its source_chain argument *)
MintSigner(source_chain) == Pda(<<"wrapped_mint", source_chain>>)

UserAccount(user, mint) == <<"account", user>> \o mint

(* A token account of a wrapped mint held by someone who never calls. *)
OtherAccounts == {UserAccount("bob", WrappedMintOf("chainB"))}

TokenAccounts ==
    {UserAccount(u, m) : u \in Users, m \in Mints}
        \cup OtherAccounts \cup {LockVault(NativeMint), ReleaseVault}

(* TokenAccount.mint *)
AccountMint(a) ==
    IF a[1] = "vault" THEN NativeMint ELSE SubSeq(a, 3, Len(a))

(* TokenAccount.owner: the authority that may move its tokens. *)
AccountOwner(a) ==
    IF a[1] = "vault" THEN a ELSE <<a[2]>>

(* Mint.mint_authority: each wrapped mint is its own authority. *)
MintAuthority(m) == m

----------------------------------------------------------------------------
(* The token program, as the handlers call it. st is the state the         *)
(* invocation works on.                                                    *)

TokenTransfer(st, from, to, authority, signers, amount) ==
    IF /\ from \in TokenAccounts
       /\ to \in TokenAccounts
       /\ AccountMint(from) = AccountMint(to)
       /\ AccountOwner(from) = authority
       /\ authority \in signers
       /\ st.bal[from] >= amount
    THEN [ok |-> TRUE,
          st |-> [st EXCEPT !.bal = IF from = to THEN @
                                    ELSE [@ EXCEPT ![from] = @ - amount,
                                                   ![to] = @ + amount]]]
    ELSE [ok |-> FALSE, st |-> st]

TokenMintTo(st, mint, to, authority, signers, amount) ==
    IF /\ mint \in Mints
       /\ to \in TokenAccounts
       /\ AccountMint(to) = mint
       /\ MintAuthority(mint) = authority
       /\ authority \in signers
    THEN [ok |-> TRUE,
          st |-> [st EXCEPT !.bal = [@ EXCEPT ![to] = @ + amount],
                            !.supply = [@ EXCEPT ![mint] = @ + amount]]]
    ELSE [ok |-> FALSE, st |-> st]

TokenBurn(st, mint, from, authority, signers, amount) ==
    IF /\ mint \in Mints
       /\ from \in TokenAccounts
       /\ AccountMint(from) = mint
       /\ AccountOwner(from) = authority
       /\ authority \in signers
       /\ st.bal[from] >= amount
    THEN [ok |-> TRUE,
          st |-> [st EXCEPT !.bal = [@ EXCEPT ![from] = @ - amount],
                            !.supply = [@ EXCEPT ![mint] = @ - amount]]]
    ELSE [ok |-> FALSE, st |-> st]

----------------------------------------------------------------------------
(* The state an invocation works on, and how it ends. *)

Cur == [nonce |-> nonce, processed |-> processed, bal |-> bal,
        supply |-> supply, events |-> events]

(* processed.contains(&source_tx) *)
Contains(vec, x) == \E i \in 1 .. Len(vec) : vec[i] = x

(* emit!(...) *)
Emit(st, ev) == [st EXCEPT !.events = Append(@, ev)]

(* Ok(()): the accounts as the handler left them are written back. *)
Commit(st) == [res |-> "Ok", st |-> st]

(* An early return of Err (require!, ?): the invocation aborts, and the    *)
(* accounts stay as they were at entry (entry), whatever the handler had   *)
(* already changed in its working copy (work).                             *)
AbortKeepsWork(entry, work, code) == [res |-> code, st |-> work]

Abort(entry, work, code) == [res |-> code, st |-> entry]

(* bridge_state.nonce += 1. On overflow the build either panics (overflow  *)
(* checks on) or wraps (overflow checks off).                              *)
OverflowModes(st) == IF st.nonce = U64Max THEN {"panic", "wrap"} ELSE {"panic"}

----------------------------------------------------------------------------
(* The instruction handlers. *)

LockNoAmountCheck(st, user, token_mint, amount, target_chain, target_addr, slot, mode) ==
    IF ~(Len(target_addr) <= MaxTargetAddr)
    THEN Abort(st, st, "InvalidTargetAddress")
    ELSE
    LET t == TokenTransfer(st, UserAccount(user, token_mint),
                           LockVault(token_mint), <<user>>, {<<user>>}, amount)
    IN  IF ~t.ok THEN Abort(st, t.st, "AdapterFailure")
        ELSE IF t.st.nonce = U64Max /\ mode = "panic"
        THEN Abort(st, t.st, "Panic")
        ELSE
        LET s2 == [t.st EXCEPT !.nonce = U64WrappingInc(@)]
        IN  Commit(Emit(s2,
                [type |-> "Locked", source |-> user, token |-> token_mint,
                 amount |-> amount, target_chain |-> target_chain,
                 target_addr |-> target_addr, nonce |-> s2.nonce,
                 slot |-> slot]))

LockAddrOffByOne(st, user, token_mint, amount, target_chain, target_addr, slot, mode) ==
    IF ~(amount > 0) THEN Abort(st, st, "InvalidAmount")
    ELSE IF ~(Len(target_addr) < MaxTargetAddr)
    THEN Abort(st, st, "InvalidTargetAddress")
    ELSE
    LET t == TokenTransfer(st, UserAccount(user, token_mint),
                           LockVault(token_mint), <<user>>, {<<user>>}, amount)
    IN  IF ~t.ok THEN Abort(st, t.st, "AdapterFailure")
        ELSE IF t.st.nonce = U64Max /\ mode = "panic"
        THEN Abort(st, t.st, "Panic")
        ELSE
        LET s2 == [t.st EXCEPT !.nonce = U64WrappingInc(@)]
        IN  Commit(Emit(s2,
                [type |-> "Locked", source |-> user, token |-> token_mint,
                 amount |-> amount, target_chain |-> target_chain,
                 target_addr |-> target_addr, nonce |-> s2.nonce,
                 slot |-> slot]))

lock(st, user, token_mint, amount, target_chain, target_addr, slot, mode) ==
    IF ~(amount > 0) THEN Abort(st, st, "InvalidAmount")
    ELSE IF ~(Len(target_addr) <= MaxTargetAddr)
    THEN Abort(st, st, "InvalidTargetAddress")
    ELSE
    LET t == TokenTransfer(st, UserAccount(user, token_mint),
                           LockVault(token_mint), <<user>>, {<<user>>}, amount)
    IN  IF ~t.ok THEN Abort(st, t.st, "AdapterFailure")
        ELSE IF t.st.nonce = U64Max /\ mode = "panic"
        THEN Abort(st, t.st, "Panic")
        ELSE
        LET s2 == [t.st EXCEPT !.nonce = U64WrappingInc(@)]
        IN  Commit(Emit(s2,
                [type |-> "Locked", source |-> user, token |-> token_mint,
                 amount |-> amount, target_chain |-> target_chain,
                 target_addr |-> target_addr, nonce |-> s2.nonce,
                 slot |-> slot]))

ReleaseNoReplayGuard(st, user, user_token_account, amount, source_tx) ==
    LET s1 == [st EXCEPT !.processed = Append(@, source_tx)]
        t == TokenTransfer(s1, ReleaseVault,
                           user_token_account,
                           ReleaseVault, {<<user>>, ReleaseSigner}, amount)
    IN  IF ~t.ok THEN Abort(st, t.st, "AdapterFailure")
        ELSE Commit(Emit(t.st,
                [type |-> "Released", recipient |-> user, amount |-> amount,
                 source_tx |-> source_tx]))

(* release, except that it rejects a zero amount as the outbound           *)
(* instructions do.                                                        *)
ReleaseRejectsZeroAmount(st, user, user_token_account, amount, source_tx) ==
    IF ~(amount > 0) THEN Abort(st, st, "InvalidAmount")
    ELSE IF Contains(st.processed, source_tx)
    THEN Abort(st, st, "AlreadyProcessed")
    ELSE
    LET s1 == [st EXCEPT !.processed = Append(@, source_tx)]
        t == TokenTransfer(s1, ReleaseVault,
                           user_token_account,
                           ReleaseVault, {<<user>>, ReleaseSigner}, amount)
    IN  IF ~t.ok THEN Abort(st, t.st, "AdapterFailure")
        ELSE Commit(Emit(t.st,
                [type |-> "Released", recipient |-> user, amount |-> amount,
                 source_tx |-> source_tx]))

(* release, except that it also increments nonce as the outbound           *)
(* instructions do.                                                        *)
ReleaseBumpsNonce(st, user, user_token_account, amount, source_tx) ==
    IF Contains(st.processed, source_tx)
    THEN Abort(st, st, "AlreadyProcessed")
    ELSE
    LET s1 == [st EXCEPT !.processed = Append(@, source_tx)]
        t == TokenTransfer(s1, ReleaseVault,
                           user_token_account,
                           ReleaseVault, {<<user>>, ReleaseSigner}, amount)
    IN  IF ~t.ok THEN Abort(st, t.st, "AdapterFailure")
        ELSE Commit(Emit([t.st EXCEPT !.nonce = U64WrappingInc(@)],
                [type |-> "Released", recipient |-> user, amount |-> amount,
                 source_tx |-> source_tx]))

release(st, user, user_token_account, amount, source_tx) ==
    IF Contains(st.processed, source_tx)
    THEN Abort(st, st, "AlreadyProcessed")
    ELSE
    LET s1 == [st EXCEPT !.processed = Append(@, source_tx)]
        t == TokenTransfer(s1, ReleaseVault,
                           user_token_account,
                           ReleaseVault, {<<user>>, ReleaseSigner}, amount)
    IN  IF ~t.ok THEN Abort(st, t.st, "AdapterFailure")
        ELSE Commit(Emit(t.st,
                [type |-> "Released", recipient |-> user, amount |-> amount,
                 source_tx |-> source_tx]))

MintWrappedNoReplayGuard(st, user, user_token_account, seed_chain, amount, source_tx, source_chain) ==
    LET wrapped_mint == WrappedMintOf(seed_chain)
        s1 == [st EXCEPT !.processed = Append(@, source_tx)]
        t == TokenMintTo(s1, wrapped_mint, user_token_account,
                         wrapped_mint, {<<user>>, MintSigner(source_chain)},
                         amount)
    IN  IF ~t.ok THEN Abort(st, t.st, "AdapterFailure")
        ELSE Commit(Emit(t.st,
                [type |-> "WrappedMinted", recipient |-> user,
                 wrapped_mint |-> wrapped_mint, amount |-> amount,
                 source_tx |-> source_tx, source_chain |-> source_chain]))

(* seed_chain is the key of the source_chain account of MintWrapped, which *)
(* addresses wrapped_mint; source_chain is the instruction argument.       *)
(* mint_wrapped, except that the signer is derived from the seeds of the   *)
(* wrapped_mint account instead of the source_chain argument.              *)
MintWrappedSignsWithAccountSeed(st, user, user_token_account, seed_chain, amount, source_tx, source_chain) ==
    IF Contains(st.processed, source_tx)
    THEN Abort(st, st, "AlreadyProcessed")
    ELSE
    LET wrapped_mint == WrappedMintOf(seed_chain)
        s1 == [st EXCEPT !.processed = Append(@, source_tx)]
        t == TokenMintTo(s1, wrapped_mint, user_token_account,
                         wrapped_mint, {<<user>>, MintSigner(seed_chain)},
                         amount)
    IN  IF ~t.ok THEN Abort(st, t.st, "AdapterFailure")
        ELSE Commit(Emit(t.st,
                [type |-> "WrappedMinted", recipient |-> user,
                 wrapped_mint |-> wrapped_mint, amount |-> amount,
                 source_tx |-> source_tx, source_chain |-> source_chain]))

mint_wrapped(st, user, user_token_account, seed_chain, amount, source_tx, source_chain) ==
    IF Contains(st.processed, source_tx)
    THEN Abort(st, st, "AlreadyProcessed")
    ELSE
    LET wrapped_mint == WrappedMintOf(seed_chain)
        s1 == [st EXCEPT !.processed = Append(@, source_tx)]
        t == TokenMintTo(s1, wrapped_mint, user_token_account,
                         wrapped_mint, {<<user>>, MintSigner(source_chain)},
                         amount)
    IN  IF ~t.ok THEN Abort(st, t.st, "AdapterFailure")
        ELSE Commit(Emit(t.st,
                [type |-> "WrappedMinted", recipient |-> user,
                 wrapped_mint |-> wrapped_mint, amount |-> amount,
                 source_tx |-> source_tx, source_chain |-> source_chain]))

BurnWrappedNoNonce(st, user, user_token_account, wrapped_mint, amount, target_chain, target_addr, mode) ==
    IF ~(amount > 0) THEN Abort(st, st, "InvalidAmount")
    ELSE
    LET t == TokenBurn(st, wrapped_mint, user_token_account,
                       <<user>>, {<<user>>}, amount)
    IN  IF ~t.ok THEN Abort(st, t.st, "AdapterFailure")
        ELSE IF t.st.nonce = U64Max /\ mode = "panic"
        THEN Abort(st, t.st, "Panic")
        ELSE
        LET s2 == t.st
        IN  Commit(Emit(s2,
                [type |-> "WrappedBurned", source |-> user,
                 wrapped_mint |-> wrapped_mint, amount |-> amount,
                 target_chain |-> target_chain, target_addr |-> target_addr,
                 nonce |-> s2.nonce]))

burn_wrapped(st, user, user_token_account, wrapped_mint, amount, target_chain, target_addr, mode) ==
    IF ~(amount > 0) THEN Abort(st, st, "InvalidAmount")
    ELSE
    LET t == TokenBurn(st, wrapped_mint, user_token_account,
                       <<user>>, {<<user>>}, amount)
    IN  IF ~t.ok THEN Abort(st, t.st, "AdapterFailure")
        ELSE IF t.st.nonce = U64Max /\ mode = "panic"
        THEN Abort(st, t.st, "Panic")
        ELSE
        LET s2 == [t.st EXCEPT !.nonce = U64WrappingInc(@)]
        IN  Commit(Emit(s2,
                [type |-> "WrappedBurned", source |-> user,
                 wrapped_mint |-> wrapped_mint, amount |-> amount,
                 target_chain |-> target_chain, target_addr |-> target_addr,
                 nonce |-> s2.nonce]))

----------------------------------------------------------------------------
(* Invocations. A Call records the instruction and its arguments; fields   *)
(* an instruction does not take hold the values of NoCall.                 *)

NoCall == [op |-> "none", user |-> "-", user_token_account |-> <<>>,
           amount |-> 0, source_tx |-> "-", chain |-> "-",
           seed_chain |-> "-", target_addr |-> <<>>, mint |-> <<>>,
           slot |-> 0, res |-> "-"]

Outbound == {"lock", "burn_wrapped"}
Inbound == {"release", "mint_wrapped"}

(* The handler the runtime dispatches the call to. *)
Run(st, c, mode) ==
    CASE c.op = "lock" ->
            lock(st, c.user, c.mint, c.amount, c.chain, c.target_addr,
                 c.slot, mode)
      [] c.op = "release" ->
            release(st, c.user, c.user_token_account, c.amount, c.source_tx)
      [] c.op = "mint_wrapped" ->
            mint_wrapped(st, c.user, c.user_token_account, c.seed_chain,
                         c.amount, c.source_tx, c.chain)
      [] c.op = "burn_wrapped" ->
            burn_wrapped(st, c.user, c.user_token_account, c.mint, c.amount,
                         c.chain, c.target_addr, mode)

(* The accounts and the log after an invocation that ended as r, and the   *)
(* bookkeeping of what was called.                                         *)
Finish(c, r) ==
    /\ nonce' = r.st.nonce
    /\ processed' = r.st.processed
    /\ bal' = r.st.bal
    /\ supply' = r.st.supply
    /\ events' = r.st.events
    /\ last' = [c EXCEPT !.res = r.res]
    /\ nOut' = IF r.res = "Ok" /\ c.op \in Outbound THEN nOut + 1 ELSE nOut
    /\ sumLock' = IF r.res = "Ok" /\ c.op = "lock"
                  THEN sumLock + c.amount ELSE sumLock
    /\ sumRelease' = IF r.res = "Ok" /\ c.op = "release"
                     THEN sumRelease + c.amount ELSE sumRelease
    /\ succ' = IF r.res = "Ok" /\ c.op \in Inbound
               THEN [succ EXCEPT ![c.source_tx] = @ + 1] ELSE succ
    /\ failed' = IF r.res = "AdapterFailure" /\ c.op = "release"
                 THEN failed \cup {c.source_tx} ELSE failed
    /\ before' = [nonce |-> nonce, supply |-> supply]
    /\ UNCHANGED <<nonce0, vault0>>

Invoke(c) ==
    /\ calls' = calls + 1
    /\ \E mode \in OverflowModes(Cur) : Finish(c, Run(Cur, c, mode))
    /\ UNCHANGED host

LockCalls ==
    {[NoCall EXCEPT !.op = "lock", !.user = u,
                    !.user_token_account = UserAccount(u, NativeMint),
                    !.mint = NativeMint, !.amount = a, !.chain = tc,
                    !.target_addr = ta, !.slot = sl] :
        u \in Users, a \in Amounts, tc \in TargetChains, ta \in TargetAddrs,
        sl \in Slots}

ReleaseCalls ==
    {[NoCall EXCEPT !.op = "release", !.user = u,
                    !.user_token_account = uta, !.amount = a,
                    !.source_tx = tx] :
        u \in Users, uta \in TokenAccounts, a \in Amounts, tx \in SourceTxs}

MintWrappedCalls ==
    {[NoCall EXCEPT !.op = "mint_wrapped", !.user = u,
                    !.user_token_account = uta, !.amount = a,
                    !.source_tx = tx, !.chain = sc, !.seed_chain = kc] :
        u \in Users, uta \in TokenAccounts, a \in Amounts, tx \in SourceTxs,
        sc \in Chains, kc \in Chains}

BurnWrappedCalls ==
    {[NoCall EXCEPT !.op = "burn_wrapped", !.user = u,
                    !.user_token_account = uta, !.mint = m, !.amount = a,
                    !.chain = tc, !.target_addr = ta] :
        u \in Users, uta \in TokenAccounts, m \in Mints, a \in Amounts,
        tc \in TargetChains, ta \in TargetAddrs}

Lock ==
    /\ calls < MaxCalls
    /\ \E c \in LockCalls : Invoke(c)

Release ==
    /\ calls < MaxCalls
    /\ \E c \in ReleaseCalls : Invoke(c)

MintWrapped ==
    /\ calls < MaxCalls
    /\ \E c \in MintWrappedCalls : Invoke(c)

BurnWrapped ==
    /\ calls < MaxCalls
    /\ \E c \in BurnWrappedCalls : Invoke(c)

InitAt(n0) ==
    /\ nonce = n0
    /\ nonce0 = n0
    /\ processed = <<>>
    /\ \E v \in {0, VaultFunds} :
        /\ bal = [a \in TokenAccounts |->
                    IF a = ReleaseVault THEN v
                    ELSE IF \E u \in Users : a = UserAccount(u, NativeMint)
                    THEN UserFunds ELSE 0]
        /\ vault0 = v
        /\ supply = [m \in Mints |->
                    IF m = NativeMint
                    THEN v + UserFunds * Cardinality(Users) ELSE 0]
    /\ events = <<>>
    /\ last = NoCall
    /\ calls = 0
    /\ nOut = 0
    /\ sumLock = 0
    /\ sumRelease = 0
    /\ succ = [tx \in SourceTxs |-> 0]
    /\ failed = {}
    /\ before = [nonce |-> nonce, supply |-> supply]
    /\ pending = [p \in Procs |-> <<>>]
    /\ version = 0
    /\ raced = {}

Init == InitAt(U64Zero)

Next == Lock \/ Release \/ MintWrapped \/ BurnWrapped

Spec == Init /\ [][Next]_vars

(* The bridge one increment away from the largest nonce. *)
InitHigh == InitAt(<<LimbBase - 1, LimbBase - 1, LimbBase - 1, LimbBase - 2>>)

SpecHigh == InitHigh /\ [][Next]_vars

----------------------------------------------------------------------------
(* Concurrent invocations under the host's transaction model: a submitted  *)
(* invocation runs its handler on the accounts as they are when it starts  *)
(* (Submit) and its effects are applied as a whole when it commits         *)
(* (CommitTx); an invocation that finds the accounts written since it      *)
(* started is rejected ("Conflict") and its caller submits it again.       *)

ConcurrentMints ==
    {c \in MintWrappedCalls :
        /\ c.seed_chain = c.chain
        /\ c.chain = "chainB"
        /\ c.user_token_account = UserAccount(c.user, WrappedMintOf(c.chain))}

ConcurrentReleases ==
    {c \in ReleaseCalls :
        c.user_token_account = UserAccount(c.user, NativeMint)}

InFlight(p) == pending[p] # <<>>

Submit(p, c) ==
    /\ calls' = calls + 1
    /\ \E mode \in OverflowModes(Cur) :
        pending' = [pending EXCEPT ![p] =
                <<[c |-> c, base |-> version, r |-> Run(Cur, c, mode)]>>]
    /\ raced' = IF /\ ~Contains(processed, c.source_tx)
                   /\ \E q \in Procs \ {p} :
                        /\ InFlight(q)
                        /\ pending[q][1].c.source_tx = c.source_tx
                THEN raced \cup {c.source_tx} ELSE raced
    /\ UNCHANGED <<core, last, nonce0, nOut, sumLock, sumRelease, succ,
                   failed, vault0, before, version>>

SubmitRelease(p) ==
    /\ ~InFlight(p)
    /\ calls < MaxSubmits
    /\ \E c \in ConcurrentReleases : Submit(p, c)

SubmitMintWrapped(p) ==
    /\ ~InFlight(p)
    /\ calls < MaxSubmits
    /\ \E c \in ConcurrentMints : Submit(p, c)

CommitTx(p) ==
    /\ InFlight(p)
    /\ LET t == pending[p][1]
       IN  IF t.base = version
           THEN /\ Finish(t.c, t.r)
                /\ version' = IF t.r.res = "Ok" THEN version + 1 ELSE version
           ELSE /\ Finish(t.c, [res |-> "Conflict", st |-> Cur])
                /\ version' = version
    /\ pending' = [pending EXCEPT ![p] = <<>>]
    /\ UNCHANGED <<calls, raced>>

NextConc ==
    \E p \in Procs : SubmitRelease(p) \/ SubmitMintWrapped(p) \/ CommitTx(p)

SpecConc == Init /\ [][NextConc]_vars

----------------------------------------------------------------------------
(* Vocabulary of the properties. *)

(* The step is an invocation made under Spec. *)
Invoked == calls' = calls + 1 /\ pending' = pending

(* The step ends an invocation of a process under SpecConc. *)
Committed == \E p \in Procs : InFlight(p) /\ pending'[p] = <<>>

Range(vec) == {vec[i] : i \in 1 .. Len(vec)}

NoDuplicates(vec) ==
    \A i, j \in 1 .. Len(vec) : vec[i] = vec[j] => i = j

EventsOf(type) == {i \in 1 .. Len(events) : events[i].type = type}

(* n + k without wrap-around, as <<carry, l1, l2, l3, l4>>. *)
U64Plus(n, k) ==
    LET s4 == n[4] + k
        s3 == n[3] + (s4 \div LimbBase)
        s2 == n[2] + (s3 \div LimbBase)
        s1 == n[1] + (s2 \div LimbBase)
    IN  <<s1 \div LimbBase, s1 % LimbBase, s2 % LimbBase, s3 % LimbBase,
          s4 % LimbBase>>

----------------------------------------------------------------------------
(* C1: for every source_tx at most one release or mint_wrapped naming it   *)
(* ever succeeds, and every inbound invocation naming a source_tx that has *)
(* already succeeded fails with AlreadyProcessed, with no transfer, mint   *)
(* or event performed.                                                     *)
C1_AtMostOneInboundSuccess ==
    /\ [](\A tx \in SourceTxs : succ[tx] <= 1)
    /\ [][(/\ Invoked
           /\ last'.op \in Inbound
           /\ succ[last'.source_tx] >= 1)
          => /\ last'.res = "AlreadyProcessed"
             /\ core' = core]_vars

(* A source_tx that succeeded once and was then rejected. *)
C1_Witness ==
    /\ last.op \in Inbound
    /\ last.res = "AlreadyProcessed"
    /\ succ[last.source_tx] = 1
    /\ last.amount > 0
    /\ Len(events) = 1
    /\ events[1].amount > 0

(* C2: of two inbound invocations naming the same source_tx and in flight  *)
(* at once, never both take effect: a source_tx has at most one successful *)
(* invocation, and an invocation naming a source_tx that has already       *)
(* succeeded ends rejected (as a conflict to be retried, or with           *)
(* AlreadyProcessed) and changes nothing.                                  *)
C2_RaceHasOneWinner ==
    /\ [](\A tx \in SourceTxs : succ[tx] <= 1)
    /\ [][(/\ Committed
           /\ last'.op \in Inbound
           /\ succ[last'.source_tx] >= 1)
          => /\ last'.res \in {"AlreadyProcessed", "Conflict"}
             /\ core' = core]_vars

(* Two invocations raced on a source_tx: one succeeded, and the other,     *)
(* retried after its rejection, ended with AlreadyProcessed.               *)
C2_Witness ==
    /\ last.source_tx \in raced
    /\ succ[last.source_tx] = 1
    /\ last.res = "AlreadyProcessed"
    /\ last.amount > 0
    /\ Len(events) = 1
    /\ events[1].amount > 0
    /\ \A p \in Procs : ~InFlight(p)

(* C3: processed never holds an identifier twice, and no transition        *)
(* removes an identifier from it.                                          *)
C3_ProcessedOnlyGrows ==
    /\ [](NoDuplicates(processed))
    /\ [][Range(processed) \subseteq Range(processed')]_vars

(* Two identifiers have been recorded. *)
C3_Witness == Len(processed) = 2 /\ Cardinality(Range(processed)) = 2

(* C4: the Vault balance, whether read as the account lock credits or as   *)
(* the account release debits, is what it held at initialization plus the  *)
(* successful locks minus the successful releases, and is not negative.    *)
C4_VaultIsLocksMinusReleases ==
    /\ bal[LockVault(NativeMint)] = sumLock - sumRelease
    /\ bal[ReleaseVault] = vault0 + sumLock - sumRelease
    /\ bal[LockVault(NativeMint)] >= 0
    /\ bal[ReleaseVault] >= 0

(* C5: a release of an unprocessed source_tx for more than the vault holds *)
(* fails with the adapter's error and changes nothing: balances, nonce,    *)
(* events and processed stay as they were, source_tx is not recorded.      *)
C5_FailedReleaseChangesNothing ==
    [][(/\ Invoked
        /\ last'.op = "release"
        /\ ~Contains(processed, last'.source_tx)
        /\ last'.amount > bal[ReleaseVault])
       => /\ last'.res = "AdapterFailure"
          /\ core' = core
          /\ ~Contains(processed', last'.source_tx)]_vars

(* A release that failed at its transfer, its source_tx unrecorded. *)
C5_Witness ==
    /\ last.op = "release"
    /\ last.res = "AdapterFailure"
    /\ last.amount > bal[ReleaseVault]
    /\ ~Contains(processed, last.source_tx)

(* C6, as claimed: once the vault transfer of a release naming source_tx   *)
(* has failed, no inbound invocation naming that source_tx succeeds.       *)
C6_NoSuccessAfterFailedTransfer ==
    \A tx \in failed : succ[tx] = 0

(* C6, amended: the abort of a release whose vault transfer failed         *)
(* discards the processed record: an inbound invocation naming that        *)
(* source_tx, made while none has succeeded, is not rejected with          *)
(* AlreadyProcessed, and succeeds unless its own transfer or mint fails.   *)
C6_FailedTransferLeavesRetryOpen ==
    [][(/\ Invoked
        /\ last'.op \in Inbound
        /\ last'.source_tx \in failed
        /\ succ[last'.source_tx] = 0)
       => /\ ~Contains(processed, last'.source_tx)
          /\ last'.res \in {"Ok", "AdapterFailure"}]_vars

(* A release succeeded for a source_tx whose earlier release had failed. *)
C6_Witness ==
    /\ last.op = "release"
    /\ last.res = "Ok"
    /\ last.source_tx \in failed
    /\ last.amount > 0

(* C7: lock and burn_wrapped with amount 0 fail with InvalidAmount and     *)
(* change nothing.                                                         *)
C7_ZeroAmountRejected ==
    [][(/\ Invoked
        /\ last'.op \in Outbound
        /\ last'.amount = 0)
       => /\ last'.res = "InvalidAmount"
          /\ core' = core]_vars

(* A zero-amount outbound invocation rejected in a state that already has  *)
(* an event.                                                               *)
C7_Witness ==
    /\ last.op \in Outbound
    /\ last.amount = 0
    /\ last.res = "InvalidAmount"
    /\ Len(events) = 1

(* C8: lock with a positive amount and a target address of more than 64    *)
(* bytes fails with InvalidTargetAddress and changes nothing; with at most *)
(* 64 bytes it is not rejected as InvalidTargetAddress.                    *)
C8_LockTargetAddrBound ==
    [][(/\ Invoked
        /\ last'.op = "lock"
        /\ last'.amount > 0)
       => /\ Len(last'.target_addr) > MaxTargetAddr
                => (last'.res = "InvalidTargetAddress" /\ core' = core)
          /\ Len(last'.target_addr) <= MaxTargetAddr
                => last'.res # "InvalidTargetAddress"]_vars

(* A 64-byte address was locked with, then a 65-byte one was rejected. *)
C8_Witness ==
    /\ last.op = "lock"
    /\ last.amount > 0
    /\ Len(last.target_addr) = MaxTargetAddr + 1
    /\ last.res = "InvalidTargetAddress"
    /\ \E i \in EventsOf("Locked") :
            Len(events[i].target_addr) = MaxTargetAddr

(* C9: burn_wrapped accepts only a target address of at most 64 bytes, so  *)
(* every WrappedBurned event of a wrapped asset of the bridge carries a    *)
(* target address of at most 64 bytes.                                     *)
C9_BurnTargetAddrBound ==
    \A i \in EventsOf("WrappedBurned") :
        events[i].wrapped_mint \in {WrappedMintOf(c) : c \in Chains}
            => Len(events[i].target_addr) <= MaxTargetAddr

(* C10: nonce is its initial value plus the number of successful lock and  *)
(* burn_wrapped invocations.                                               *)
C10_NonceCountsOutbound ==
    <<0>> \o nonce = U64Plus(nonce0, nOut)

(* A lock and a burn_wrapped have both succeeded. *)
C10_Witness ==
    /\ nOut = 2
    /\ EventsOf("Locked") # {}
    /\ EventsOf("WrappedBurned") # {}


(* C11: from nonce 0 and empty vaults, a lock emits Locked with nonce 1,   *)
(* and the release of the locked amount that follows it, naming an         *)
(* unprocessed source_tx and the caller's own account of the locked mint   *)
(* as recipient, succeeds, empties the vault the lock funded and emits     *)
(* Released with that amount and source_tx.                                *)
C11_RoundTrip ==
    (/\ nonce0 = U64Zero
     /\ vault0 = 0
     /\ Len(events) >= 1
     /\ events[1].type = "Locked")
    => /\ events[1].nonce = <<0, 0, 0, 1>>
       /\ (/\ calls = 2
           /\ last.op = "release"
           /\ last.user_token_account = UserAccount(last.user, NativeMint)
           /\ last.amount = events[1].amount)
          => /\ last.res = "Ok"
             /\ Len(events) = 2
             /\ events[2] = [type |-> "Released", recipient |-> last.user,
                             amount |-> last.amount,
                             source_tx |-> last.source_tx]
             /\ bal[LockVault(NativeMint)] = 0

(* C12: a successful mint_wrapped followed by a successful burn_wrapped of  *)
(* the same amount of the same wrapped asset leaves that asset's supply as *)
(* it was before the mint and nonce one higher, and the source_tx of every *)
(* mint stays in processed.                                                *)
C12_MintThenBurnNetsZero ==
    /\ [](\A i \in EventsOf("WrappedMinted") :
            Contains(processed, events[i].source_tx))
    /\ [][(/\ Invoked
           /\ last.op = "mint_wrapped"
           /\ last.res = "Ok"
           /\ last'.op = "burn_wrapped"
           /\ last'.res = "Ok"
           /\ last'.mint = WrappedMintOf(last.seed_chain)
           /\ last'.amount = last.amount)
          => /\ supply'[last'.mint] = before.supply[last'.mint]
             /\ <<0>> \o nonce' = U64Plus(before.nonce, 1)
             /\ Contains(processed', last.source_tx)]_vars

(* A positive amount was minted and then burned. *)
C12_Witness ==
    /\ last.op = "burn_wrapped"
    /\ last.res = "Ok"
    /\ Len(events) = 2
    /\ events[1].type = "WrappedMinted"
    /\ events[1].wrapped_mint = last.mint
    /\ events[1].amount = last.amount
    /\ last.amount > 0
    /\ last.chain = events[1].source_chain
    /\ supply[last.mint] = 0
    /\ Contains(processed, events[1].source_tx)

(* C13: the vault account a lock has credited is the account release       *)
(* debits, so a release of an unprocessed source_tx to an account of the   *)
(* locked mint fails at its transfer only when it asks for more than is    *)
(* locked and not yet released.                                            *)
C13_ReleaseDebitsLockVault ==
    /\ sumLock > 0 => LockVault(NativeMint) = ReleaseVault
    /\ (/\ last.op = "release"
        /\ last.res = "AdapterFailure"
        /\ AccountMint(last.user_token_account) = NativeMint)
            => last.amount > sumLock - sumRelease

(* The sum of the amounts of the events at the indices idxs. *)
RECURSIVE SumAmounts(_)
SumAmounts(idxs) ==
    IF idxs = {} THEN 0
    ELSE LET i == CHOOSE j \in idxs : TRUE
         IN  events[i].amount + SumAmounts(idxs \ {i})

(* The events of an inbound operation that carry source_tx tx. *)
InboundEventsOf(tx) ==
    {i \in EventsOf("Released") \cup EventsOf("WrappedMinted") :
        events[i].source_tx = tx}

(* The balances b after amount has gone from one account to another. *)
Moved(b, from, to, amount) ==
    IF from = to THEN b
    ELSE [b EXCEPT ![from] = @ - amount, ![to] = @ + amount]

(* C14: in every reachable state a source_tx is in processed exactly when  *)
(* one Released or WrappedMinted event carries it, never more than one;    *)
(* the invocation that emitted the event has, in the same step, moved the  *)
(* amount from the release vault to the recipient account it was given, or *)
(* minted it into that account and onto the wrapped mint's supply; an      *)
(* inbound invocation that fails changes nothing; and each wrapped mint's  *)
(* supply is what was minted for it less what was burned.                  *)
C14_NoPartialInbound ==
    /\ [](\A tx \in SourceTxs :
            /\ Contains(processed, tx) <=> Cardinality(InboundEventsOf(tx)) = 1
            /\ Cardinality(InboundEventsOf(tx)) <= 1)
    /\ [](NoDuplicates(processed))
    /\ [](\A c \in Chains :
            supply[WrappedMintOf(c)] =
                SumAmounts({i \in EventsOf("WrappedMinted") :
                                events[i].wrapped_mint = WrappedMintOf(c)})
                - SumAmounts({i \in EventsOf("WrappedBurned") :
                                events[i].wrapped_mint = WrappedMintOf(c)}))
    /\ [][(Invoked /\ last'.op = "release" /\ last'.res = "Ok")
            => /\ bal' = Moved(bal, ReleaseVault, last'.user_token_account,
                               last'.amount)
               /\ supply' = supply
               /\ events' = Append(events,
                        [type |-> "Released", recipient |-> last'.user,
                         amount |-> last'.amount,
                         source_tx |-> last'.source_tx])]_vars
    /\ [][(Invoked /\ last'.op = "mint_wrapped" /\ last'.res = "Ok")
            => /\ bal' = [bal EXCEPT ![last'.user_token_account] =
                                            @ + last'.amount]
               /\ supply' = [supply EXCEPT ![WrappedMintOf(last'.seed_chain)] =
                                            @ + last'.amount]
               /\ Len(events') = Len(events) + 1
               /\ events'[Len(events')].type = "WrappedMinted"
               /\ events'[Len(events')].amount = last'.amount
               /\ events'[Len(events')].source_tx = last'.source_tx]_vars
    /\ [][(Invoked /\ last'.op \in Inbound /\ last'.res # "Ok")
            => core' = core]_vars

(* A release and a mint_wrapped of positive amounts have both succeeded:   *)
(* the release vault is down by the released amount and the wrapped supply *)
(* is up by the minted one.                                                *)
C14_Witness ==
    /\ Len(processed) = 2
    /\ Len(events) = 2
    /\ {events[1].type, events[2].type} = {"Released", "WrappedMinted"}
    /\ events[1].amount > 0
    /\ events[2].amount > 0
    /\ bal[ReleaseVault] < vault0
    /\ \E c \in Chains : supply[WrappedMintOf(c)] > 0
    /\ failed = {}

(* The supplies of the bridge's wrapped mints. *)
WrappedSupply(sup) == [c \in Chains |-> sup[WrappedMintOf(c)]]

(* The balances of the two vault accounts. *)
VaultBalances(b) == <<b[LockVault(NativeMint)], b[ReleaseVault]>>

(* C15: an invocation, successful or not, leaves alone what its row of the *)
(* interface table does not list: lock and burn_wrapped never change       *)
(* processed; release never changes nonce or a wrapped supply;             *)
(* mint_wrapped never changes nonce or a vault balance; lock never changes *)
(* a wrapped supply; burn_wrapped never changes a vault balance.           *)
C15_FrameOfEachOperation ==
    [][Invoked =>
        /\ last'.op \in Outbound => processed' = processed
        /\ last'.op = "release"
            => /\ nonce' = nonce
               /\ WrappedSupply(supply') = WrappedSupply(supply)
        /\ last'.op = "mint_wrapped"
            => /\ nonce' = nonce
               /\ VaultBalances(bal') = VaultBalances(bal)
        /\ last'.op = "lock" => WrappedSupply(supply') = WrappedSupply(supply)
        /\ last'.op = "burn_wrapped"
            => VaultBalances(bal') = VaultBalances(bal)]_vars

(* A successful release of a positive amount after a successful lock: the  *)
(* nonce is still the one the lock emitted.                                *)
C15_Witness ==
    /\ calls = 2
    /\ Len(events) = 2
    /\ events[1].type = "Locked"
    /\ last.op = "release"
    /\ last.res = "Ok"
    /\ last.amount > 0
    /\ nonce = events[1].nonce
    /\ processed = <<last.source_tx>>

(* C16: the wrapped_mint of every WrappedMinted event is the mint derived  *)
(* from the event's source_chain; a mint_wrapped whose source_chain        *)
(* argument differs from the source_chain that addresses the wrapped mint  *)
(* account never succeeds and changes nothing; and a successful            *)
(* mint_wrapped leaves the supply of every other chain's wrapped mint      *)
(* unchanged.                                                              *)
C16_MintIsScopedToSourceChain ==
    /\ [](\A i \in EventsOf("WrappedMinted") :
            events[i].wrapped_mint = WrappedMintOf(events[i].source_chain))
    /\ [][(Invoked /\ last'.op = "mint_wrapped")
            => /\ last'.seed_chain # last'.chain
                    => /\ last'.res # "Ok"
                       /\ core' = core
               /\ last'.res = "Ok"
                    => \A c \in Chains \ {last'.chain} :
                        supply'[WrappedMintOf(c)] = supply[WrappedMintOf(c)]]_vars

(* After a successful mint of a positive amount, a mint_wrapped of an      *)
(* unprocessed source_tx whose two source chains differ has failed.        *)
C16_Witness ==
    /\ calls = 2
    /\ Len(events) = 1
    /\ events[1].type = "WrappedMinted"
    /\ events[1].amount > 0
    /\ supply[WrappedMintOf(events[1].source_chain)] = events[1].amount
    /\ last.op = "mint_wrapped"
    /\ last.seed_chain # last.chain
    /\ last.user_token_account =
            UserAccount(last.user, WrappedMintOf(last.seed_chain))
    /\ last.amount > 0
    /\ ~Contains(processed, last.source_tx)
    /\ last.res = "AdapterFailure"

(* The mints the bridge issues through mint_wrapped. *)
WrappedMints == {WrappedMintOf(c) : c \in Chains}

(* C17: every WrappedBurned event names a wrapped mint of the bridge, for  *)
(* each such mint the amounts reported burned never exceed the amounts     *)
(* minted for it, and a burn_wrapped of a mint the bridge did not issue    *)
(* never succeeds, so it neither increments nonce nor emits WrappedBurned. *)
C17_BurnOnlyBridgeIssued ==
    /\ \A i \in EventsOf("WrappedBurned") : events[i].wrapped_mint \in WrappedMints
    /\ \A m \in WrappedMints :
        SumAmounts({i \in EventsOf("WrappedBurned") : events[i].wrapped_mint = m})
            <= SumAmounts({i \in EventsOf("WrappedMinted") :
                                events[i].wrapped_mint = m})
    /\ (last.op = "burn_wrapped" /\ last.mint \notin WrappedMints)
            => last.res # "Ok"

(* The indices of the Locked and WrappedBurned events, in emission order. *)
OutboundEvents == EventsOf("Locked") \cup EventsOf("WrappedBurned")

(* C18: an outbound invocation that succeeds emits one event carrying the  *)
(* value of nonce after its increment, and the nonces of the Locked and    *)
(* WrappedBurned events, in emission order across both kinds, go up by     *)
(* exactly 1 from one outbound event to the next, so no two are equal.     *)
C18_OutboundNoncesConsecutive ==
    /\ [](\A i, j \in OutboundEvents :
            (i < j /\ \A k \in OutboundEvents : ~(i < k /\ k < j))
                => <<0>> \o events[j].nonce = U64Plus(events[i].nonce, 1))
    /\ [](\A i, j \in OutboundEvents :
            i # j => events[i].nonce # events[j].nonce)
    /\ [][(Invoked /\ last'.op \in Outbound /\ last'.res = "Ok")
            => /\ Len(events') = Len(events) + 1
               /\ events'[Len(events')].nonce = nonce'
               /\ <<0>> \o nonce' = U64Plus(nonce, 1)]_vars

(* A Locked and a WrappedBurned event have been emitted, one after the     *)
(* other.                                                                  *)
C18_Witness ==
    /\ Len(events) = 2
    /\ {events[1].type, events[2].type} = {"Locked", "WrappedBurned"}
    /\ events[1].nonce = <<0, 0, 0, 1>>
    /\ events[2].nonce = <<0, 0, 0, 2>>
    /\ nonce = events[2].nonce

(* C19: nonce never decreases: after every invocation it is at least what  *)
(* it was before the invocation and at least its initial value, and an     *)
(* outbound invocation entered with nonce = 2^64 - 1 does not succeed.     *)
C19_NonceNeverDecreases ==
    /\ U64Leq(before.nonce, nonce)
    /\ U64Leq(nonce0, nonce)
    /\ (last.op \in Outbound /\ before.nonce = U64Max) => last.res # "Ok"

(* C20: a release to an account of the vault's mint, or a mint_wrapped     *)
(* whose two source chains agree to an account of the wrapped mint, called *)
(* with amount 0 and a source_tx not in processed succeeds, changes no     *)
(* balance and no supply, emits its event and records source_tx; and an    *)
(* inbound invocation naming a recorded source_tx, whatever its amount,    *)
(* fails with AlreadyProcessed.                                            *)
C20_ZeroAmountInboundConsumesSourceTx ==
    /\ [][(/\ Invoked
           /\ last'.op \in Inbound
           /\ last'.amount = 0
           /\ ~Contains(processed, last'.source_tx)
           /\ last'.op = "release"
                => AccountMint(last'.user_token_account) = NativeMint
           /\ last'.op = "mint_wrapped"
                => /\ last'.seed_chain = last'.chain
                   /\ AccountMint(last'.user_token_account) =
                            WrappedMintOf(last'.seed_chain))
          => /\ last'.res = "Ok"
             /\ bal' = bal
             /\ supply' = supply
             /\ nonce' = nonce
             /\ Len(events') = Len(events) + 1
             /\ events'[Len(events')].type =
                    (IF last'.op = "release" THEN "Released" ELSE "WrappedMinted")
             /\ events'[Len(events')].amount = 0
             /\ events'[Len(events')].source_tx = last'.source_tx
             /\ processed' = Append(processed, last'.source_tx)]_vars
    /\ [][(/\ Invoked
           /\ last'.op \in Inbound
           /\ Contains(processed, last'.source_tx))
          => /\ last'.res = "AlreadyProcessed"
             /\ core' = core]_vars

(* A release of a positive amount that the vault could pay has failed with *)
(* AlreadyProcessed because a zero-amount inbound call took its source_tx. *)
C20_Witness ==
    /\ calls = 2
    /\ Len(events) = 1
    /\ events[1].amount = 0
    /\ events[1].type \in {"Released", "WrappedMinted"}
    /\ last.op = "release"
    /\ last.amount > 0
    /\ last.amount <= bal[ReleaseVault]
    /\ last.source_tx = events[1].source_tx
    /\ last.res = "AlreadyProcessed"
    /\ processed = <<last.source_tx>>

====
